---------------------------- MODULE Spec2Model ----------------------------
(*************************************************************************)
(* Model of the code-red-server session engine: app/main.py (Socket.IO   *)
(* and REST handlers), app/managers/game.py (Game, GameManager) and      *)
(* app/managers/timer.py (GameClock, TimerManager).                      *)
(*                                                                       *)
(* Five specifications share the actions.  Spec is the timed one: the    *)
(* game handlers, the timer's _run task, the bot tasks and the wall      *)
(* clock; SpecFair is Spec with the _run task's iteration weakly fair.   *)
(* SpecLobby is the untimed one: every Socket.IO handler, for one sid    *)
(* more, at one instant.  SpecRegistry calls GameManager's methods       *)
(* directly, without a handler's session check.  SpecConcurrent runs     *)
(* make_move and pass_turn one await at a time.                          *)
(*                                                                       *)
(* One game id, "room-1", is modelled, with everything the handlers keep *)
(* about it.  In Spec, SpecLobby and SpecRegistry each handler is one    *)
(* action, the view in which no two calls overlap; in SpecConcurrent a   *)
(* call may be suspended at each await of sio.emit while others run.     *)
(* Wall-clock time is the variable now, in whole milliseconds;           *)
(* time.time() differences are the differences of now.                   *)
(* A socket id (sid) is an opaque string for the code: the sids modelled *)
(* include strings equal to bot ids, the only way a seat can be the      *)
(* seat Game._maybe_schedule_bot_move looks for.                         *)
(*************************************************************************)
EXTENDS Integers, Sequences, FiniteSets, TLC

VARIABLES
    sess_game_id,  \* sid -> session['game_id'] (None when unset or not connected)
    room_players,  \* lobby_rooms['room-1']['players']
    room_status,   \* lobby_rooms['room-1']['status']
    games,         \* keys of GameManager.games
    players,       \* Game.players
    current_idx,   \* Game.current_idx
    status,        \* Game.status
    bot,           \* Game.bot
    bot_tasks,     \* every task created for Game._bot_task; the last is _bot_task
    clocks,        \* TimerManager._clocks
    run_tasks,     \* TimerManager._tasks: game id -> state of the _run task
    run_ready,     \* the _run task's sleep(0.1) has elapsed
    now,           \* wall clock, ms
    emitted,       \* events emitted by the last step, in order
    expired_count, \* number of timer-expired events emitted so far
    ops,           \* make-move and pass-turn calls suspended in an await of sio.emit
    raised         \* the exception the last step ended with (None when it returned)

vars == <<sess_game_id, room_players, room_status, games, players,
          current_idx, status, bot, bot_tasks, clocks, run_tasks, run_ready,
          now, emitted, expired_count, ops, raised>>

-----------------------------------------------------------------------------
(* Bounds of the model *)

\* number of TimeStep steps the wall clock may take
MaxBigSteps == 2

\* number of bot tasks a game may create
MaxTasks == 2

\* number of make-move and pass-turn calls followed one await at a time
MaxOps == 3

-----------------------------------------------------------------------------
(* Inputs and constants of the program *)

None == "None"

GameId == "room-1"

\* the sids that connect; those of PlaySids play in the timed specification
Sids == {"s1", "s2", "bot-beginner"}

PlaySids == {"s1", "bot-beginner"}

AVAILABLE_BOTS ==
    { [id |-> "bot-beginner", difficulty |-> "beginner"],
      [id |-> "bot-easy",     difficulty |-> "easy"],
      [id |-> "bot-medium",   difficulty |-> "medium"] }

\* bot ids a client may put in POST /games/{game_id}/bot/{bot_id}
BotIdInputs == {"bot-beginner", "bot-medium", "bot-unknown"}

NoBot == [id |-> None, difficulty |-> None]

maxPlayers == 2

total_minutes_per_player == 15

SYNC_INTERVAL_MS == 5 * 1000

\* asyncio.sleep(0.1) of the _run loop
POLL_MS == 100

\* the step the wall clock advances by when no bot task is due first
TimeStep == total_minutes_per_player * 60 * 1000

Horizon == MaxBigSteps * TimeStep + MaxTasks * 5000

-----------------------------------------------------------------------------
(* Values *)

Max(a, b) == IF a >= b THEN a ELSE b

\* schemas.PlayerState (name is a display string taken from the session)
PlayerState(sid) == [id |-> sid, score |-> 0, isConnected |-> TRUE]

\* one emitted Socket.IO event; who, p1, p2 hold the payload fields a
\* property may read (None / -1 when the event has none)
Ev(ev, who, p1, p2) == [ev |-> ev, who |-> who, p1 |-> p1, p2 |-> p2]

NoSync == 0 - 1

-----------------------------------------------------------------------------
(* timer.py: GameClock and TimerManager *)

\* snapshot without the clamp at zero
snapshot_raw(c) ==
    [player1Time   |-> c.player1_ms,
     player2Time   |-> c.player2_ms,
     currentPlayer |-> IF c.current = "player1" THEN "player1" ELSE "player2",
     isPaused      |-> c.paused]

\* GameClock.snapshot
snapshot(c) ==
    [player1Time   |-> Max(0, c.player1_ms),
     player2Time   |-> Max(0, c.player2_ms),
     currentPlayer |-> IF c.current = "player1" THEN "player1" ELSE "player2",
     isPaused      |-> c.paused]

SyncEv(ts) == Ev("timer-sync", ts.currentPlayer, ts.player1Time, ts.player2Time)

\* _apply_elapsed without the return for a paused clock
apply_elapsed_paused_too(c, t) ==
    LET elapsed_ms == t - c.last_ts IN
    IF elapsed_ms <= 0 THEN c
    ELSE IF c.current = "player1"
         THEN [c EXCEPT !.player1_ms = @ - elapsed_ms, !.last_ts = t]
         ELSE [c EXCEPT !.player2_ms = @ - elapsed_ms, !.last_ts = t]

\* _apply_elapsed without the return for an elapsed time that is not positive
apply_elapsed_signed(c, t) ==
    IF c.paused THEN c
    ELSE LET elapsed_ms == t - c.last_ts IN
         IF c.current = "player1"
         THEN [c EXCEPT !.player1_ms = @ - elapsed_ms, !.last_ts = t]
         ELSE [c EXCEPT !.player2_ms = @ - elapsed_ms, !.last_ts = t]

\* TimerManager._apply_elapsed at time t
apply_elapsed(c, t) ==
    IF c.paused THEN c
    ELSE LET elapsed_ms == t - c.last_ts IN
         IF elapsed_ms <= 0 THEN c
         ELSE IF c.current = "player1"
              THEN [c EXCEPT !.player1_ms = @ - elapsed_ms, !.last_ts = t]
              ELSE [c EXCEPT !.player2_ms = @ - elapsed_ms, !.last_ts = t]

NewClock(t) ==
    LET total_ms == total_minutes_per_player * 60 * 1000 IN
    [player1_ms |-> total_ms, player2_ms |-> total_ms, current |-> "player1",
     paused |-> TRUE, last_ts |-> t, next_sync |-> NoSync]

\* TimerManager.create_clock: the new value of _clocks
create_clock(cl, game_id, t) ==
    [g \in DOMAIN cl \cup {game_id} |-> IF g = game_id THEN NewClock(t) ELSE cl[g]]

\* TimerManager.create_clock: the new value of _tasks
create_task(rt, game_id) ==
    IF game_id \in DOMAIN rt THEN rt
    ELSE [g \in DOMAIN rt \cup {game_id} |-> IF g = game_id THEN "running" ELSE rt[g]]

start_turn(cl, game_id, cur, t) ==
    LET cl1 == IF game_id \in DOMAIN cl THEN cl ELSE create_clock(cl, game_id, t) IN
    [cl1 EXCEPT ![game_id] = [@ EXCEPT !.current = cur, !.paused = FALSE, !.last_ts = t]]

\* TimerManager.pause: the new value of _clocks
pause(cl, game_id, t) ==
    IF game_id \notin DOMAIN cl THEN cl
    ELSE [cl EXCEPT ![game_id] = [apply_elapsed(@, t) EXCEPT !.paused = TRUE]]

\* switch_turn without the change of side
switch_turn_same_side(cl, game_id, t) ==
    IF game_id \notin DOMAIN cl THEN cl
    ELSE LET c == apply_elapsed(cl[game_id], t) IN
         [cl EXCEPT ![game_id] = [c EXCEPT !.last_ts = t]]

\* TimerManager.switch_turn: the new value of _clocks
switch_turn(cl, game_id, t) ==
    IF game_id \notin DOMAIN cl THEN cl
    ELSE LET c == apply_elapsed(cl[game_id], t) IN
         [cl EXCEPT ![game_id] =
             [c EXCEPT !.current = IF c.current = "player1" THEN "player2" ELSE "player1",
                       !.last_ts = t]]

\* TimerManager.get_state: the new value of _clocks (elapsed time is applied)
get_state_clocks(cl, game_id, t) ==
    IF game_id \notin DOMAIN cl THEN cl
    ELSE [cl EXCEPT ![game_id] = apply_elapsed(@, t)]

\* TimerManager.get_state: the TimerState returned for a clock that exists
get_state(cl, game_id, t) == snapshot(apply_elapsed(cl[game_id], t))

\* join_game: the timer-sync it emits when get_timer_state returns a state
get_state_events(cl, game_id, t) ==
    IF game_id \notin DOMAIN cl THEN <<>>
    ELSE <<SyncEv(get_state(cl, game_id, t))>>

-----------------------------------------------------------------------------
(* game.py: Game *)

\* Game.current_player, as its id (None without players)
current_player_id(pl, idx) ==
    IF Len(pl) = 0 THEN None ELSE pl[(idx % Len(pl)) + 1].id

GameStateEv(pl, idx, st) == Ev("game:state", current_player_id(pl, idx), Len(pl), 0 - 1)

\* random.randint(0, 1) with two players or more, else 0
start_idx(pl) == IF Len(pl) >= 2 THEN {0, 1} ELSE {0}

\* pass_turn's new current_idx without the modulo
next_idx_unwrapped(idx, n) == idx + 1

\* pass_turn's new current_idx; the caller excludes n = 0 (ZeroDivisionError)
next_idx(idx, n) == (idx + 1) % n

\* Game._bot_delay: the ends of the uniform window, in ms
bot_delay(difficulty) ==
    IF difficulty = "beginner" THEN {2000, 3000}
    ELSE IF difficulty = "easy" THEN {2500, 4000}
    ELSE {3000, 5000}

\* a task that has ended (done or cancelled): its coroutine's delay and timer
\* are gone
Ended(task, how) == [task EXCEPT !.state = how, !.delay = 0, !.fires_at = 0]

\* a task that is not done(): still sleeping, or running its move
Live(task) == task.state \in {"sleeping", "running"}

is_bot_turn(pl, idx, b) ==
    b # NoBot /\ Len(pl) > 0 /\ current_player_id(pl, idx) = b.id

\* the delays _maybe_schedule_bot_move may draw (one dummy value when it arms nothing)
delay_choices(pl, idx, b) ==
    IF is_bot_turn(pl, idx, b) THEN bot_delay(b.difficulty) ELSE {0}

\* _maybe_schedule_bot_move without the cancel of the task it replaces
maybe_schedule_keeping(tasks, pl, idx, b, delay, t) ==
    IF is_bot_turn(pl, idx, b)
    THEN Append(tasks, [state |-> "sleeping", delay |-> delay,
                        fires_at |-> t + delay, fired |-> FALSE])
    ELSE tasks

\* Game._maybe_schedule_bot_move: the new list of tasks created for _bot_task
maybe_schedule_bot_move(tasks, pl, idx, b, delay, t) ==
    IF is_bot_turn(pl, idx, b)
    THEN LET n == Len(tasks)
             cancelled == IF n > 0 /\ Live(tasks[n])
                          THEN [tasks EXCEPT ![n] = Ended(@, "cancelled")]
                          ELSE tasks
         IN Append(cancelled, [state |-> "sleeping", delay |-> delay,
                               fires_at |-> t + delay, fired |-> FALSE])
    ELSE tasks

\* a running task that was not cancelled returns: it is done
finish(tasks) ==
    [k \in DOMAIN tasks |->
        IF tasks[k].state = "running" THEN Ended(tasks[k], "done")
        ELSE tasks[k]]

\* Game.start, for the roster pl and the random draw r; pre: events already emitted
Start(pl, r, pre) ==
    IF Len(pl) >= 1
    THEN /\ status' = "active"
         /\ current_idx' = r
         /\ clocks' = start_turn(create_clock(clocks, GameId, now), GameId,
                                 IF r = 0 THEN "player1" ELSE "player2", now)
         /\ run_tasks' = create_task(run_tasks, GameId)
         /\ run_ready' = IF GameId \in DOMAIN run_tasks THEN run_ready ELSE FALSE
         /\ emitted' = pre \o <<GameStateEv(pl, r, "active")>>
    ELSE /\ UNCHANGED <<status, current_idx, clocks, run_tasks, run_ready>>
         /\ emitted' = pre

\* pass_turn advancing current_idx by two
PassTurnSkipping(tasks, delay, pre) ==
    LET idx == next_idx(next_idx(current_idx, Len(players)), Len(players)) IN
    /\ current_idx' = idx
    /\ clocks' = switch_turn(clocks, GameId, now)
    /\ emitted' = pre \o <<Ev("turn-changed", current_player_id(players, idx), 0 - 1, 0 - 1)>>
    /\ bot_tasks' = finish(maybe_schedule_bot_move(tasks, players, idx, bot, delay, now))

\* Game.pass_turn for a roster that is not empty; tasks: the bot tasks as the
\* caller left them; delay: the draw of _bot_delay
PassTurn(tasks, delay, pre) ==
    LET idx == next_idx(current_idx, Len(players)) IN
    /\ current_idx' = idx
    /\ clocks' = switch_turn(clocks, GameId, now)
    /\ emitted' = pre \o <<Ev("turn-changed", current_player_id(players, idx), 0 - 1, 0 - 1)>>
    /\ bot_tasks' = finish(maybe_schedule_bot_move(tasks, players, idx, bot, delay, now))

\* the model's bound on bot tasks: a step that arms one needs room for it
RoomToArm(idx) ==
    is_bot_turn(players, idx, bot) => Len(bot_tasks) < MaxTasks

\* add_player without its check for a player of the same id
add_player_always(pl, player) == Append(pl, player)

\* GameManager.add_player: the new roster
add_player(pl, player) ==
    IF \A i \in DOMAIN pl : pl[i].id # player.id THEN Append(pl, player) ELSE pl

\* GameManager.get_or_create: the new keys of GameManager.games (a Game is
\* created with the field values Init gives)
get_or_create(gs, game_id) == gs \cup {game_id}

-----------------------------------------------------------------------------
(* Initial state: the module-level objects of main.py, nothing connected *)

Init ==
    /\ sess_game_id = [s \in Sids |-> None]
    /\ room_players = {}
    /\ room_status = "open"
    /\ games = {}
    /\ players = <<>>
    /\ current_idx = 0
    /\ status = "waiting"
    /\ bot = NoBot
    /\ bot_tasks = <<>>
    /\ clocks = [g \in {} |-> NewClock(0)]
    /\ run_tasks = [g \in {} |-> "running"]
    /\ run_ready = FALSE
    /\ now = 0
    /\ emitted = <<>>
    /\ expired_count = 0
    /\ ops = <<>>
    /\ raised = None

LobbyListEv(rp) == Ev("lobby:list", None, Cardinality(rp), 0 - 1)

-----------------------------------------------------------------------------
(* main.py: Socket.IO handlers *)

\* connect: the sid gets a fresh session, without game_id.  Which sids are
\* connected is Socket.IO's state: a sid without game_id that is in no room
\* is one that has just connected, or may connect
Connect(sid) ==
    /\ UNCHANGED ops
    /\ raised' = None
    /\ sess_game_id[sid] = None
    /\ sid \notin room_players
    /\ sess_game_id' = [sess_game_id EXCEPT ![sid] = None]
    /\ emitted' = <<Ev("pong", None, 0 - 1, 0 - 1)>>
    /\ UNCHANGED <<room_players, room_status, games, players, current_idx, status,
                   bot, bot_tasks, clocks, run_tasks, run_ready, now, expired_count>>

\* disconnect: the sid leaves its lobby room and its session ends; the Game
\* is not touched
Disconnect(sid) ==
    /\ UNCHANGED ops
    /\ raised' = None
    /\ sess_game_id' = [sess_game_id EXCEPT ![sid] = None]
    /\ IF sid \in room_players
       THEN /\ room_players' = room_players \ {sid}
            /\ room_status' = IF Cardinality(room_players \ {sid}) < maxPlayers
                              THEN "open" ELSE room_status
            /\ emitted' = <<LobbyListEv(room_players \ {sid})>>
       ELSE /\ UNCHANGED <<room_players, room_status>>
            /\ emitted' = <<>>
    /\ UNCHANGED <<games, players, current_idx, status, bot, bot_tasks, clocks,
                   run_tasks, run_ready, now, expired_count>>

\* lobby:join on room-1
LobbyJoin(sid) ==
    /\ UNCHANGED ops
    /\ raised' = None
    /\ UNCHANGED <<bot, bot_tasks, now, expired_count>>
    /\ IF Cardinality(room_players) >= maxPlayers
       THEN /\ emitted' = <<>>
            /\ UNCHANGED <<sess_game_id, room_players, room_status, games, players,
                           current_idx, status, clocks, run_tasks, run_ready>>
       ELSE LET rp  == room_players \cup {sid}
                pl  == add_player(players, PlayerState(sid))
                pre == <<GameStateEv(pl, current_idx, status), LobbyListEv(rp)>>
            IN /\ room_players' = rp
               /\ sess_game_id' = [sess_game_id EXCEPT ![sid] = GameId]
               /\ games' = get_or_create(games, GameId)
               /\ players' = pl
               /\ room_status' = IF Cardinality(rp) = 2 THEN "in-game" ELSE "open"
               /\ IF Cardinality(rp) = 2
                  THEN \E r \in start_idx(pl) : Start(pl, r, pre)
                  ELSE /\ emitted' = pre
                       /\ UNCHANGED <<status, current_idx, clocks, run_tasks, run_ready>>

\* lobby:leave on room-1
LobbyLeave(sid) ==
    /\ UNCHANGED ops
    /\ raised' = None
    /\ room_players' = room_players \ {sid}
    /\ room_status' = "open"
    /\ emitted' = <<LobbyListEv(room_players \ {sid})>>
    /\ UNCHANGED <<sess_game_id, games, players, current_idx, status, bot,
                   bot_tasks, clocks, run_tasks, run_ready, now, expired_count>>

\* join-game on room-1
JoinGame(sid) ==
    /\ UNCHANGED ops
    /\ raised' = None
    /\ sess_game_id' = [sess_game_id EXCEPT ![sid] = GameId]
    /\ games' = get_or_create(games, GameId)
    /\ players' = add_player(players, PlayerState(sid))
    /\ clocks' = get_state_clocks(clocks, GameId, now)
    /\ emitted' = <<GameStateEv(players', current_idx, status)>>
                    \o get_state_events(clocks, GameId, now)
    /\ UNCHANGED <<room_players, room_status, current_idx, status, bot,
                   bot_tasks, run_tasks, run_ready, now, expired_count>>

\* game:start on room-1
GameStart(sid) ==
    /\ UNCHANGED ops
    /\ raised' = None
    /\ games' = get_or_create(games, GameId)
    /\ \E r \in start_idx(players) : Start(players, r, <<>>)
    /\ UNCHANGED <<sess_game_id, room_players, room_status, players, bot,
                   bot_tasks, now, expired_count>>

\* make-move and its alias game:placeTiles; the payload is validated and
\* echoed, and nothing of it is kept
MakeMove(sid) ==
    /\ UNCHANGED ops
    /\ UNCHANGED <<sess_game_id, room_players, room_status, players, status,
                   bot, run_tasks, run_ready, now, expired_count>>
    /\ IF sess_game_id[sid] = None
       THEN /\ emitted' = <<>>
            /\ raised' = None
            /\ UNCHANGED <<games, current_idx, clocks, bot_tasks>>
       ELSE LET pre == <<Ev("game:moveValidated", None, 0 - 1, 0 - 1),
                         Ev("move-made", None, 0 - 1, 0 - 1)>>
            IN /\ games' = get_or_create(games, GameId)
               /\ IF Len(players) = 0
                  THEN \* ZeroDivisionError in pass_turn
                       /\ emitted' = pre
                       /\ raised' = "ZeroDivisionError"
                       /\ UNCHANGED <<current_idx, clocks, bot_tasks>>
                  ELSE LET idx == next_idx(current_idx, Len(players)) IN
                       /\ RoomToArm(idx)
                       /\ raised' = None
                       /\ \E delay \in delay_choices(players, idx, bot) :
                              PassTurn(bot_tasks, delay, pre)

\* pass-turn and its alias game:pass
PassTurnHandler(sid) ==
    /\ UNCHANGED ops
    /\ UNCHANGED <<sess_game_id, room_players, room_status, players, status,
                   bot, run_tasks, run_ready, now, expired_count>>
    /\ IF sess_game_id[sid] = None
       THEN /\ emitted' = <<>>
            /\ raised' = None
            /\ UNCHANGED <<games, current_idx, clocks, bot_tasks>>
       ELSE /\ games' = get_or_create(games, GameId)
            /\ IF Len(players) = 0
               THEN \* ZeroDivisionError in pass_turn
                    /\ emitted' = <<>>
                    /\ raised' = "ZeroDivisionError"
                    /\ UNCHANGED <<current_idx, clocks, bot_tasks>>
               ELSE LET idx == next_idx(current_idx, Len(players)) IN
                    /\ RoomToArm(idx)
                    /\ raised' = None
                    /\ \E delay \in delay_choices(players, idx, bot) :
                           PassTurn(bot_tasks, delay, <<>>)

\* POST /games/room-1/bot/{bot_id}: GameManager.set_bot when the bot exists
AddBot(bot_id) ==
    /\ UNCHANGED ops
    /\ raised' = None
    /\ IF \E b \in AVAILABLE_BOTS : b.id = bot_id
       THEN /\ bot' = CHOOSE b \in AVAILABLE_BOTS : b.id = bot_id
            /\ games' = get_or_create(games, GameId)
       ELSE UNCHANGED <<bot, games>>
    /\ emitted' = <<>>
    /\ UNCHANGED <<sess_game_id, room_players, room_status, players,
                   current_idx, status, bot_tasks, clocks, run_tasks, run_ready,
                   now, expired_count>>

-----------------------------------------------------------------------------
(* game.py: GameManager.make_move and GameManager.pass_turn called with a   *)
(* game id, as any caller of the manager may call them: the Socket.IO       *)
(* handlers call them for the game_id of a session only                     *)

ManagerPassTurn ==
    /\ UNCHANGED ops
    /\ games' = get_or_create(games, GameId)
    /\ UNCHANGED <<sess_game_id, room_players, room_status, players, status,
                   bot, run_tasks, run_ready, now, expired_count>>
    /\ IF Len(players) = 0
       THEN \* ZeroDivisionError in pass_turn
            /\ emitted' = <<>>
            /\ raised' = "ZeroDivisionError"
            /\ UNCHANGED <<current_idx, clocks, bot_tasks>>
       ELSE LET idx == next_idx(current_idx, Len(players)) IN
            /\ RoomToArm(idx)
            /\ raised' = None
            /\ \E delay \in delay_choices(players, idx, bot) :
                   PassTurn(bot_tasks, delay, <<>>)

ManagerMakeMove ==
    /\ UNCHANGED ops
    /\ games' = get_or_create(games, GameId)
    /\ UNCHANGED <<sess_game_id, room_players, room_status, players, status,
                   bot, run_tasks, run_ready, now, expired_count>>
    /\ LET pre == <<Ev("move-made", None, 0 - 1, 0 - 1)>> IN
       IF Len(players) = 0
       THEN \* ZeroDivisionError in pass_turn
            /\ emitted' = pre
            /\ raised' = "ZeroDivisionError"
            /\ UNCHANGED <<current_idx, clocks, bot_tasks>>
       ELSE LET idx == next_idx(current_idx, Len(players)) IN
            /\ RoomToArm(idx)
            /\ raised' = None
            /\ \E delay \in delay_choices(players, idx, bot) :
                   PassTurn(bot_tasks, delay, pre)

-----------------------------------------------------------------------------
(* Background tasks *)

\* TimerManager._run: one iteration of the loop, after its sleep(0.1)
RunTick ==
    /\ UNCHANGED ops
    /\ raised' = None
    /\ GameId \in DOMAIN run_tasks
    /\ run_tasks[GameId] = "running"
    /\ run_ready
    /\ run_ready' = FALSE
    /\ UNCHANGED <<sess_game_id, room_players, room_status, games, players,
                   current_idx, status, bot, bot_tasks, now>>
    /\ IF GameId \notin DOMAIN clocks
       THEN /\ emitted' = <<>>
            /\ UNCHANGED <<clocks, run_tasks, expired_count>>
       ELSE LET c == apply_elapsed(clocks[GameId], now) IN
            IF c.player1_ms <= 0 \/ c.player2_ms <= 0
            THEN LET loser == IF c.player1_ms <= 0 THEN "player1" ELSE "player2" IN
                 /\ clocks' = [clocks EXCEPT ![GameId] = [c EXCEPT !.paused = TRUE]]
                 /\ emitted' = <<Ev("timer-expired", loser, 0 - 1, 0 - 1)>>
                 /\ expired_count' = expired_count + 1
                 /\ run_tasks' = [run_tasks EXCEPT ![GameId] = "done"]
            ELSE LET next_sync == IF c.next_sync = NoSync
                                  THEN now + SYNC_INTERVAL_MS ELSE c.next_sync
                 IN /\ IF now >= next_sync
                       THEN /\ emitted' = <<SyncEv(snapshot(c))>>
                            /\ clocks' = [clocks EXCEPT ![GameId] =
                                   [c EXCEPT !.next_sync = now + SYNC_INTERVAL_MS]]
                       ELSE /\ emitted' = <<>>
                            /\ clocks' = [clocks EXCEPT ![GameId] =
                                   [c EXCEPT !.next_sync = next_sync]]
                    /\ UNCHANGED <<run_tasks, expired_count>>

\* Game._bot_move_after: task k wakes from its sleep and submits the dummy move
BotMove(k) ==
    /\ UNCHANGED ops
    /\ k \in DOMAIN bot_tasks
    /\ bot_tasks[k].state = "sleeping"
    /\ now >= bot_tasks[k].fires_at
    /\ UNCHANGED <<sess_game_id, room_players, room_status, games, players,
                   status, bot, run_tasks, run_ready, now, expired_count>>
    /\ LET running == [bot_tasks EXCEPT ![k] = [@ EXCEPT !.state = "running", !.fired = TRUE]]
           pre     == <<Ev("move-made", bot.id, 0 - 1, 0 - 1)>>
       IN IF Len(players) = 0
          THEN \* ZeroDivisionError in pass_turn
               /\ emitted' = pre
               /\ raised' = "ZeroDivisionError"
               /\ bot_tasks' = finish(running)
               /\ UNCHANGED <<current_idx, clocks>>
          ELSE LET idx == next_idx(current_idx, Len(players)) IN
               /\ RoomToArm(idx)
               /\ raised' = None
               /\ \E delay \in delay_choices(players, idx, bot) :
                      PassTurn(running, delay, pre)

-----------------------------------------------------------------------------
(* make_move and pass_turn, one await of sio.emit at a time: the event loop *)
(* may run another handler or task while a call is suspended in an emit.    *)
(* An entry of ops is one call: task is the bot task that makes it (0 for a *)
(* client's handler) and pc the emit it is suspended in, or how it ended.   *)

OpRec(task, pc) == [task |-> task, pc |-> pc]

Suspended == {o \in DOMAIN ops : ops[o].pc \in {"move-made", "turn-changed"}}

\* the task of a call returns, unless it was cancelled
finish_one(tasks, k) ==
    IF k # 0 /\ tasks[k].state = "running"
    THEN [tasks EXCEPT ![k] = Ended(@, "done")]
    ELSE tasks

\* a bot task cancelled while it is suspended gets CancelledError in its await
drop_cancelled(os, tasks) ==
    [o \in DOMAIN os |->
        IF /\ os[o].pc \in {"move-made", "turn-changed"}
           /\ os[o].task # 0
           /\ tasks[os[o].task].state = "cancelled"
        THEN [os[o] EXCEPT !.pc = "cancelled"]
        ELSE os[o]]

\* the make_move handler up to its await of the move-made emit
MakeMoveBegin(sid) ==
    /\ Len(ops) < MaxOps
    /\ sess_game_id[sid] # None
    /\ games' = get_or_create(games, GameId)
    /\ emitted' = <<Ev("game:moveValidated", None, 0 - 1, 0 - 1),
                    Ev("move-made", None, 0 - 1, 0 - 1)>>
    /\ ops' = Append(ops, OpRec(0, "move-made"))
    /\ raised' = None
    /\ UNCHANGED <<sess_game_id, room_players, room_status, players, current_idx,
                   status, bot, bot_tasks, clocks, run_tasks, run_ready, now,
                   expired_count>>

\* Game.pass_turn up to its await of the turn-changed emit, for the call that
\* becomes, or is, entry o of ops
pass_turn_begin(o, task) ==
    IF Len(players) = 0
    THEN \* ZeroDivisionError
         /\ raised' = "ZeroDivisionError"
         /\ emitted' = <<>>
         /\ ops' = [k \in DOMAIN ops \cup {o} |->
                       IF k = o THEN OpRec(task, "raised") ELSE ops[k]]
         /\ bot_tasks' = finish_one(bot_tasks, task)
         /\ UNCHANGED <<current_idx, clocks>>
    ELSE LET idx == next_idx(current_idx, Len(players)) IN
         /\ raised' = None
         /\ current_idx' = idx
         /\ clocks' = switch_turn(clocks, GameId, now)
         /\ emitted' = <<Ev("turn-changed", current_player_id(players, idx),
                            0 - 1, 0 - 1)>>
         /\ ops' = [k \in DOMAIN ops \cup {o} |->
                       IF k = o THEN OpRec(task, "turn-changed") ELSE ops[k]]
         /\ UNCHANGED bot_tasks

\* the pass_turn handler up to its first await of an emit
PassTurnBegin(sid) ==
    /\ Len(ops) < MaxOps
    /\ sess_game_id[sid] # None
    /\ games' = get_or_create(games, GameId)
    /\ pass_turn_begin(Len(ops) + 1, 0)
    /\ UNCHANGED <<sess_game_id, room_players, room_status, players, status, bot,
                   run_tasks, run_ready, now, expired_count>>

\* the call o resumes from its emit and runs to its next await, or to its end
OpResume(o) ==
    /\ o \in Suspended
    /\ UNCHANGED <<sess_game_id, room_players, room_status, games, players, status,
                   bot, run_tasks, run_ready, now, expired_count>>
    /\ IF ops[o].pc = "move-made"
       THEN pass_turn_begin(o, ops[o].task)
       ELSE /\ RoomToArm(current_idx)
            /\ \E delay \in delay_choices(players, current_idx, bot) :
                  LET armed == maybe_schedule_bot_move(bot_tasks, players,
                                   current_idx, bot, delay, now)
                      tasks == finish_one(armed, ops[o].task)
                  IN /\ bot_tasks' = tasks
                     /\ ops' = drop_cancelled([ops EXCEPT ![o].pc = "done"], tasks)
            /\ raised' = None
            /\ emitted' = <<>>
            /\ UNCHANGED <<current_idx, clocks>>

\* Game._bot_move_after: task k wakes and runs to its await of the move-made emit
BotWake(k) ==
    /\ k \in DOMAIN bot_tasks
    /\ bot_tasks[k].state = "sleeping"
    /\ now >= bot_tasks[k].fires_at
    /\ Len(ops) < MaxOps
    /\ bot_tasks' = [bot_tasks EXCEPT ![k] = [@ EXCEPT !.state = "running",
                                                       !.fired = TRUE]]
    /\ emitted' = <<Ev("move-made", bot.id, 0 - 1, 0 - 1)>>
    /\ ops' = Append(ops, OpRec(k, "move-made"))
    /\ raised' = None
    /\ UNCHANGED <<sess_game_id, room_players, room_status, games, players,
                   current_idx, status, bot, clocks, run_tasks, run_ready, now,
                   expired_count>>

-----------------------------------------------------------------------------
(* Wall-clock time.  A sleeping bot task wakes when its delay has passed:   *)
(* time does not run past the wake-up time of a task that still sleeps.    *)

Sleeping == {k \in DOMAIN bot_tasks : bot_tasks[k].state = "sleeping"}

TimePasses(d) ==
    /\ UNCHANGED ops
    /\ raised' = None
    /\ d > 0
    /\ \A k \in Sleeping : now + d <= bot_tasks[k].fires_at
    /\ now' = now + d
    /\ run_ready' = (d >= POLL_MS)
    /\ emitted' = <<>>
    /\ UNCHANGED <<sess_game_id, room_players, room_status, games, players,
                   current_idx, status, bot, bot_tasks, clocks, run_tasks,
                   expired_count>>

\* a player's whole budget of time passes
TimeStepPasses ==
    /\ now + TimeStep <= Horizon
    /\ TimePasses(TimeStep)

\* time passes up to the wake-up time of a sleeping bot task
TimeToWake ==
    \E k \in Sleeping : TimePasses(bot_tasks[k].fires_at - now)

-----------------------------------------------------------------------------

\* The timed specification: the game and timer handlers, the background
\* tasks and the passing of time
Next ==
    \/ \E sid \in PlaySids : JoinGame(sid)
    \/ \E sid \in PlaySids : GameStart(sid)
    \/ \E sid \in PlaySids : MakeMove(sid)
    \/ \E sid \in PlaySids : PassTurnHandler(sid)
    \/ \E bot_id \in BotIdInputs : AddBot(bot_id)
    \/ RunTick
    \/ \E k \in 1..MaxTasks : BotMove(k)
    \/ TimeStepPasses
    \/ TimeToWake

Spec == Init /\ [][Next]_vars

\* The timed specification with the scheduling asyncio gives the _run task:
\* its sleep(0.1) returns, so an iteration that can run does run
SpecFair == Init /\ [][Next]_vars /\ WF_vars(RunTick)

\* The lobby specification: every handler, for every sid, at one instant
NextLobby ==
    \/ \E sid \in Sids : Connect(sid)
    \/ \E sid \in Sids : Disconnect(sid)
    \/ \E sid \in Sids : LobbyJoin(sid)
    \/ \E sid \in Sids : LobbyLeave(sid)
    \/ \E sid \in Sids : JoinGame(sid)
    \/ \E sid \in Sids : GameStart(sid)
    \/ \E sid \in Sids : MakeMove(sid)
    \/ \E sid \in Sids : PassTurnHandler(sid)
    \/ \E bot_id \in BotIdInputs : AddBot(bot_id)

SpecLobby == Init /\ [][NextLobby]_vars

\* The registry specification: the operations of GameManager on one game id
NextRegistry ==
    \/ \E sid \in PlaySids : JoinGame(sid)
    \/ \E sid \in PlaySids : GameStart(sid)
    \/ \E bot_id \in BotIdInputs : AddBot(bot_id)
    \/ ManagerMakeMove
    \/ ManagerPassTurn

SpecRegistry == Init /\ [][NextRegistry]_vars

\* The concurrent specification: moves and passes one await at a time, with
\* the bot tasks and the time they sleep
NextConcurrent ==
    \/ \E sid \in PlaySids : JoinGame(sid)
    \/ \E sid \in PlaySids : GameStart(sid)
    \/ \E bot_id \in BotIdInputs : AddBot(bot_id)
    \/ \E sid \in PlaySids : MakeMoveBegin(sid)
    \/ \E sid \in PlaySids : PassTurnBegin(sid)
    \/ \E o \in 1..MaxOps : OpResume(o)
    \/ \E k \in 1..MaxTasks : BotWake(k)
    \/ TimeToWake

SpecConcurrent == Init /\ [][NextConcurrent]_vars

-----------------------------------------------------------------------------
(* Properties *)

HasClock == GameId \in DOMAIN clocks

\* what a seat has left at this instant, elapsed time charged
Remaining(cl, t) ==
    LET c == apply_elapsed(cl[GameId], t) IN <<c.player1_ms, c.player2_ms>>

InRoster(sid) == \E i \in DOMAIN players : players[i].id = sid

LiveTasks(tasks) == {k \in DOMAIN tasks : Live(tasks[k])}

EmittedNames == {emitted[i].ev : i \in DOMAIN emitted}

\* C1: game:start on a game that is already active leaves current_idx, both
\* players' remaining time, the clock's side and the _run tasks as they were
C1_StartIdempotent ==
    [][(status = "active" /\ HasClock /\ \E sid \in PlaySids : GameStart(sid))
        => /\ current_idx' = current_idx
           /\ Remaining(clocks', now') = Remaining(clocks, now)
           /\ clocks'[GameId].current = clocks[GameId].current
           /\ run_tasks' = run_tasks]_vars

\* C2: make-move and pass-turn on a game whose status is not active change
\* neither current_idx, nor the clock, nor the bot tasks, and emit nothing
C2_MoveNeedsActive ==
    [][(status # "active" /\ \E sid \in PlaySids :
                                 MakeMove(sid) \/ PassTurnHandler(sid))
        => /\ UNCHANGED <<current_idx, clocks, bot_tasks>>
           /\ emitted' = <<>>]_vars

\* C3: a game never has more than two players, whatever handlers add them
C3_RosterAtMostTwo == Len(players) <= maxPlayers

NoSharedId ==
    \A i, j \in DOMAIN players : players[i].id = players[j].id => i = j

\* C4: adding a player whose id is already in the game leaves the roster as
\* it was, and join-game by such a sid leaves current_idx and status too; no
\* two players of the game ever have the same id
C4_AdmitIdempotent ==
    /\ [](/\ NoSharedId
          /\ \A sid \in Sids :
                InRoster(sid) => add_player(players, PlayerState(sid)) = players)
    /\ [][\A sid \in Sids :
             /\ (InRoster(sid) /\ JoinGame(sid))
                   => UNCHANGED <<players, current_idx, status>>
             /\ (InRoster(sid) /\ LobbyJoin(sid)) => players' = players]_vars

\* s1 is in the room, so lobby:join has put it in the roster; the one game:state
\* of a game that waits, without a clock, is emitted by a join-game, and the
\* roster of one player shows it was s1's: s1 was added a second time
C4_Witness ==
    /\ "s1" \in room_players
    /\ Len(players) = 1
    /\ status = "waiting"
    /\ ~HasClock
    /\ Len(emitted) = 1
    /\ emitted[1].ev = "game:state"

\* C5: with at least one player, current_idx is an index of the roster
C5_CurrentIdxValid ==
    Len(players) >= 1 => (0 <= current_idx /\ current_idx < Len(players))

\* a bot task's move has just passed the turn to the second of two players
C5_Witness ==
    /\ Len(players) = 2
    /\ current_idx = 1
    /\ \E k \in DOMAIN bot_tasks : bot_tasks[k].fired
    /\ "move-made" \in EmittedNames
    /\ "turn-changed" \in EmittedNames
    /\ "game:moveValidated" \notin EmittedNames

\* C6: timer-expired is emitted at most once, and once it has been emitted
\* the _run task stays done, no timer-sync is emitted and neither player's
\* remaining time changes, whatever handler runs
C6_ExpiredIsTerminal ==
    [][expired_count >= 1
        => /\ expired_count' = 1
           /\ run_tasks'[GameId] = "done"
           /\ "timer-sync" \notin EmittedNames'
           /\ clocks'[GameId].player1_ms = clocks[GameId].player1_ms
           /\ clocks'[GameId].player2_ms = clocks[GameId].player2_ms]_vars

\* C7: the state get_state returns and every timer-sync emitted hold no
\* negative time, even when a budget of the clock is below zero
C7_SnapshotNonNegative ==
    /\ HasClock => /\ get_state(clocks, GameId, now).player1Time >= 0
                   /\ get_state(clocks, GameId, now).player2Time >= 0
    /\ \A i \in DOMAIN emitted :
          emitted[i].ev = "timer-sync" => (emitted[i].p1 >= 0 /\ emitted[i].p2 >= 0)

\* a timer-sync reports zero for a budget that is below zero
C7_Witness ==
    /\ HasClock
    /\ \/ /\ clocks[GameId].player1_ms < 0
          /\ \E i \in DOMAIN emitted : emitted[i].ev = "timer-sync" /\ emitted[i].p1 = 0
       \/ /\ clocks[GameId].player2_ms < 0
          /\ \E i \in DOMAIN emitted : emitted[i].ev = "timer-sync" /\ emitted[i].p2 = 0

\* C8: at most one bot task is live; a step that creates a bot task leaves
\* none of the earlier ones live; a task cancelled before its move never
\* makes it
C8_OneLiveBotTask ==
    /\ [](Cardinality(LiveTasks(bot_tasks)) <= 1)
    /\ [][/\ Len(bot_tasks') > Len(bot_tasks)
              => \A k \in DOMAIN bot_tasks : ~Live(bot_tasks'[k])
          /\ \A k \in DOMAIN bot_tasks :
                (bot_tasks[k].state = "cancelled" /\ ~bot_tasks[k].fired)
                   => (~bot_tasks'[k].fired /\ ~BotMove(k))]_vars

\* the first bot task was cancelled in its sleep by the arming of the second,
\* which has made its move
C8_Witness ==
    /\ Len(bot_tasks) = 2
    /\ bot_tasks[1].state = "cancelled"
    /\ ~bot_tasks[1].fired
    /\ bot_tasks[2].fired

\* C9: when add_bot binds a bot whose id is the current player's, in an active
\* game, a bot task is live right after it
C9_BindArms ==
    [][\A bot_id \in BotIdInputs :
          (/\ status = "active"
           /\ AddBot(bot_id)
           /\ bot' # NoBot
           /\ current_player_id(players, current_idx) = bot'.id)
             => LiveTasks(bot_tasks') # {}]_vars

\* the claim's window for a difficulty, in ms
Window(difficulty) ==
    IF difficulty = "beginner" THEN 2000..3000
    ELSE IF difficulty = "easy" THEN 2500..4000
    ELSE 3000..5000

\* C10: in an active game of two players with a bot bound, a step that makes
\* the bot's player the current one (a pass of the turn, a move, or game:start
\* drawing it) leaves a live bot task that makes its move after a delay in
\* the window of the bot's difficulty
C10_BotArmedWhenCurrent ==
    [][(/\ bot # NoBot /\ bot' = bot
        /\ status' = "active"
        /\ Len(players') = 2
        /\ current_player_id(players', current_idx') = bot.id
        /\ \/ status = "active" /\ current_idx' # current_idx
           \/ \E sid \in PlaySids : GameStart(sid))
          => \E k \in LiveTasks(bot_tasks') :
                /\ bot_tasks'[k].fires_at = now' + bot_tasks'[k].delay
                /\ bot_tasks'[k].delay \in Window(bot.difficulty)]_vars

\* C11: once a call has emitted move-made, the next move-made or turn-changed
\* of the game is that call's turn-changed
C11_BroadcastsSerial ==
    [][\A o \in DOMAIN ops :
          ops[o].pc = "move-made"
             => \/ EmittedNames' \cap {"move-made", "turn-changed"} = {}
                \/ ops'[o].pc = "turn-changed"]_vars

\* C12: on an active game every move and every pass of the turn, by a client
\* with a session or by a bot task, sets current_idx to (current_idx + 1) modulo
\* the number of players; with two players two advances give the index back
\* and three give the other one
C12_TurnAdvancesByOne ==
    /\ [](Len(players) = 2 =>
            LET once  == next_idx(current_idx, 2)
                twice == next_idx(once, 2)
            IN /\ twice = current_idx
               /\ next_idx(twice, 2) = 1 - current_idx)
    /\ [][(/\ status = "active"
            /\ Len(players) >= 1
            /\ \/ \E sid \in PlaySids :
                    /\ sess_game_id[sid] # None
                    /\ MakeMove(sid) \/ PassTurnHandler(sid)
               \/ \E k \in DOMAIN bot_tasks : BotMove(k))
             => current_idx' = (current_idx + 1) % Len(players)]_vars

\* a client's move on an active game of two players has taken current_idx
\* from 1 back to 0
C12_Witness ==
    /\ status = "active"
    /\ Len(players) = 2
    /\ current_idx = 0
    /\ "game:moveValidated" \in EmittedNames
    /\ "turn-changed" \in EmittedNames

\* C13: an operation of the manager on a game that is not in the registry, or
\* has no players, leaves the game in the registry and raises nothing
C13_LazyCreateNoError ==
    [][(/\ games = {} \/ Len(players) = 0
        /\ \/ ManagerMakeMove
           \/ ManagerPassTurn
           \/ \E sid \in PlaySids : JoinGame(sid) \/ GameStart(sid)
           \/ \E bot_id \in {b.id : b \in AVAILABLE_BOTS} : AddBot(bot_id))
         => (raised' = None /\ games' = {GameId})]_vars

\* C14: the disconnect of a sid that is a player of the game keeps the roster
\* as it is but for that player's isConnected, which becomes false, and leaves
\* current_idx, status and the clock unchanged
C14_DisconnectMarksSeat ==
    [][\A sid \in Sids :
          (InRoster(sid) /\ Disconnect(sid))
             => /\ Len(players') = Len(players)
                /\ \A i \in DOMAIN players :
                      /\ players'[i].id = players[i].id
                      /\ players'[i].score = players[i].score
                      /\ players'[i].isConnected =
                            (players[i].id # sid /\ players[i].isConnected)
                /\ UNCHANGED <<current_idx, status, clocks>>]_vars

\* C15: the player timer-expired names is the one whose budget was the first
\* to be at or below zero: the one already there before the iteration of
\* _run that emits it, else the one on the clock in that iteration
C15_ExpiredNamesFirstCrossing ==
    [][(RunTick /\ expired_count' = expired_count + 1)
         => LET c == clocks[GameId]
                loser == emitted'[1].who
            IN /\ (c.player1_ms <= 0 /\ c.player2_ms > 0) => loser = "player1"
               /\ (c.player2_ms <= 0 /\ c.player1_ms > 0) => loser = "player2"
               /\ (c.player1_ms > 0 /\ c.player2_ms > 0) => loser = c.current]_vars

\* a player of a clock that is not paused has no time left
OutOfTime ==
    /\ HasClock
    /\ ~clocks[GameId].paused
    /\ \E i \in 1..2 : Remaining(clocks, now)[i] <= 0

\* game:start has put a new clock in place, both players with time left
Restarted ==
    /\ HasClock
    /\ ~clocks[GameId].paused
    /\ \A i \in 1..2 : Remaining(clocks, now)[i] > 0

\* C16: when a player of a clock that is not paused has no time left, the
\* _run task eventually pauses the clock and emits timer-expired, unless
\* game:start replaces the clock first; so it is for every clock of the
\* game, one started after an earlier timer-expired included
C16_ExpiryDetected ==
    OutOfTime ~> \/ HasClock /\ clocks[GameId].paused /\ expired_count > 0
                 \/ Restarted

\* C17: a bot move that fires when the bot is not the current player, or when
\* the game is not active, does nothing: current_idx and the clock stay as
\* they are and nothing is emitted
C17_StaleBotMoveIsNoOp ==
    [][\A k \in DOMAIN bot_tasks :
          (/\ BotMove(k)
           /\ \/ status # "active"
              \/ ~is_bot_turn(players, current_idx, bot))
             => /\ UNCHANGED <<current_idx, clocks>>
                /\ emitted' = <<>>]_vars

\* the two budgets of a clock
Budgets(c) == <<c.player1_ms, c.player2_ms>>

\* the wall time that may have passed when an operation reaches the clock
Waits == {0, POLL_MS, SYNC_INTERVAL_MS, TimeStep}

\* C18: on a paused clock _apply_elapsed, switch_turn, pause and get_state
\* leave both budgets as they are however much time has passed, start_turn
\* resumes it without charging the time it was paused, and no step of the
\* game other than a game:start (which makes a new clock) changes a budget
C18_PausedClockKeepsBudgets ==
    /\ [](HasClock /\ clocks[GameId].paused =>
            \A d \in Waits :
               LET c == clocks[GameId]
                   t == now + d
               IN /\ Budgets(apply_elapsed(c, t)) = Budgets(c)
                  /\ Budgets(switch_turn(clocks, GameId, t)[GameId]) = Budgets(c)
                  /\ Budgets(pause(clocks, GameId, t)[GameId]) = Budgets(c)
                  /\ get_state(clocks, GameId, t) = snapshot(c)
                  /\ \A cur \in {"player1", "player2"} :
                        LET r == start_turn(clocks, GameId, cur, t)[GameId]
                        IN /\ ~r.paused
                           /\ Budgets(r) = Budgets(c)
                           /\ Budgets(apply_elapsed(r, t)) = Budgets(c)
                           /\ \A e \in Waits :
                                 LET a == apply_elapsed(r, t + e)
                                 IN a.player1_ms + a.player2_ms
                                      = c.player1_ms + c.player2_ms - e)
    /\ [][(/\ HasClock
            /\ clocks[GameId].paused
            /\ ~ \E sid \in PlaySids : GameStart(sid))
             => /\ GameId \in DOMAIN clocks'
                /\ clocks'[GameId].paused
                /\ Budgets(clocks'[GameId]) = Budgets(clocks[GameId])]_vars

\* a paused clock that join-game has read some time after it was paused
C18_Witness ==
    /\ HasClock
    /\ clocks[GameId].paused
    /\ now > clocks[GameId].last_ts
    /\ "timer-sync" \in EmittedNames

\* the budget of the player on the clock, and of the other player
ActiveBudget(c) == IF c.current = "player1" THEN c.player1_ms ELSE c.player2_ms

OtherBudget(c) == IF c.current = "player1" THEN c.player2_ms ELSE c.player1_ms

\* the readings of time.time() an operation may get: the present, later, and
\* (a clock set back) at or before the clock's last_ts
Readings(c) ==
    {now + d : d \in Waits} \cup {c.last_ts, c.last_ts - POLL_MS, c.last_ts - TimeStep}

\* C19: _apply_elapsed takes the elapsed time, when it is positive and the
\* clock runs, from the budget of the player on the clock and from nothing
\* else, and changes nothing when it is zero or negative; so do switch_turn,
\* pause and get_state; and no step of the game other than a game:start (a
\* new clock) raises a budget or touches the budget of the other player
C19_OnlyActiveBudgetDecreases ==
    /\ [](HasClock =>
            LET c == clocks[GameId] IN
            \A t \in Readings(c) :
               LET a == apply_elapsed(c, t)
                   elapsed_ms == t - c.last_ts
               IN /\ (c.paused \/ elapsed_ms <= 0) => a = c
                  /\ (~c.paused /\ elapsed_ms > 0) =>
                        /\ ActiveBudget(a) = ActiveBudget(c) - elapsed_ms
                        /\ OtherBudget(a) = OtherBudget(c)
                        /\ a.current = c.current
                  /\ Budgets(switch_turn(clocks, GameId, t)[GameId]) = Budgets(a)
                  /\ Budgets(pause(clocks, GameId, t)[GameId]) = Budgets(a)
                  /\ Budgets(get_state_clocks(clocks, GameId, t)[GameId]) = Budgets(a))
    /\ [][(HasClock /\ ~ \E sid \in PlaySids : GameStart(sid))
             => /\ GameId \in DOMAIN clocks'
                /\ ActiveBudget(clocks[GameId]) >=
                      ActiveBudget([clocks'[GameId] EXCEPT !.current = clocks[GameId].current])
                /\ OtherBudget(clocks[GameId]) =
                      OtherBudget([clocks'[GameId] EXCEPT !.current = clocks[GameId].current])]_vars

\* a running clock on which each player has been charged some time
C19_Witness ==
    /\ HasClock
    /\ ~clocks[GameId].paused
    /\ clocks[GameId].player1_ms < total_minutes_per_player * 60 * 1000
    /\ clocks[GameId].player2_ms < total_minutes_per_player * 60 * 1000

\* C20: two calls of switch_turn with no time between them, on a clock whose
\* elapsed time has just been accounted: the first call changes the side, the
\* second changes it back, and both budgets are as they were
C20_SwitchTwiceRoundTrip ==
    HasClock =>
       LET cl0 == get_state_clocks(clocks, GameId, now)
           cl1 == switch_turn(cl0, GameId, now)
           cl2 == switch_turn(cl1, GameId, now)
       IN /\ cl1[GameId].current # cl0[GameId].current
          /\ cl1[GameId].current \in {"player1", "player2"}
          /\ cl2[GameId].current = cl0[GameId].current
          /\ Budgets(cl1[GameId]) = Budgets(cl0[GameId])
          /\ Budgets(cl2[GameId]) = Budgets(cl0[GameId])
          /\ cl2[GameId].paused = cl0[GameId].paused

\* a running clock with player2 on it, time charged to both players, right
\* after a turn change
C20_Witness ==
    /\ HasClock
    /\ ~clocks[GameId].paused
    /\ clocks[GameId].current = "player2"
    /\ clocks[GameId].player1_ms < clocks[GameId].player2_ms
    /\ clocks[GameId].player2_ms < total_minutes_per_player * 60 * 1000
    /\ "turn-changed" \in EmittedNames

\* C21: in an active game that has a clock, the clock's side names the
\* current player: player1 exactly when current_idx is 0, player2 exactly
\* when it is 1
C21_ClockSideIsCurrentSeat ==
    (status = "active" /\ HasClock) =>
        /\ clocks[GameId].current = "player1" <=> current_idx = 0
        /\ clocks[GameId].current = "player2" <=> current_idx = 1

\* C22: a game has at most one _run task, and a clock that exists and is not
\* paused has its _run task, not yet finished, polling it
C22_RunningClockHasRunner ==
    /\ DOMAIN run_tasks \subseteq {GameId}
    /\ (HasClock /\ ~clocks[GameId].paused) =>
          /\ GameId \in DOMAIN run_tasks
          /\ run_tasks[GameId] = "running"

=============================================================================
